---- MODULE Spec2Model ----
(***************************************************************************)
(* A model of the orchard sequence trees: the AVL tree (trees/avl.rs) and  *)
(* the splay tree (trees/splay.rs) over the basic tree / basic walker,     *)
(* with the StdNum algebra of data/example_data.rs and the locators of     *)
(* trees/methods/locator.rs.                                               *)
(*                                                                         *)
(* A tree is a nested record: Empty, or a node with its two subtrees.      *)
(* A walker is a tree together with the path of its telescope (one         *)
(* is_left flag per frame below the root) and the frames' context          *)
(* summaries.                                                              *)
(***************************************************************************)
EXTENDS Integers, Sequences, FiniteSets, TLC

\* ---------------------------------------------------------------- bounds
\* how many values may be inserted into the AVL tree in one behaviour
MaxAvlInserts == 4
\* how many values may be inserted into the splay tree in one behaviour
MaxSplayInserts == 3
\* how many values the behaviours of inserts and deletes on an AVL tree insert
MaxRebalanceInserts == 6
\* how many segment calls (act_segment, segment_summary, isolate_segment)
\* one behaviour has
MaxSegOps == 2
\* the values from_iter draws its input sequence from are 1..MaxVal
MaxVal == 2
\* the segment tests collect the sequences 1..n, n up to MaxSegLen, into a tree
MaxSegLen == 5

\* how many split_right calls one behaviour has
MaxSplits == 1
\* the split tests collect the sequences 1..n, n up to MaxSplitLen, into a tree
MaxSplitLen == 4
\* the references handed to a telescope are numbered 1..MaxRef
MaxRef == 3
\* extends and pushes of one telescope
MaxPushes == 3
\* length of the key-ordered trees the locators are tried on
MaxLocLen == 4
\* length of the splay trees the splay steps are tried on
MaxSplayLen == 4

\* ------------------------------------------------------- Option<T>
None == <<>>
Some(x) == <<x>>

MaxOf(a, b) == IF a >= b THEN a ELSE b
MinOf(a, b) == IF a <= b THEN a ELSE b

\* ------------------------------------------- NumSummary (example_data.rs)
SummaryDefault == [max |-> None, min |-> None, size |-> 0, sum |-> 0]

ToSummary(val) == [max |-> Some(val), min |-> Some(val), size |-> 1, sum |-> val]

SummaryAdd(self, other) ==
    [ max  |-> IF self.max # None /\ other.max # None
                 THEN Some(MaxOf(self.max[1], other.max[1]))
                 ELSE IF self.max # None THEN self.max ELSE other.max,
      min  |-> IF self.min # None /\ other.min # None
                 THEN Some(MinOf(self.min[1], other.min[1]))
                 ELSE IF self.min # None THEN self.min ELSE other.min,
      size |-> self.size + other.size,
      sum  |-> self.sum + other.sum ]

\* -------------------------------------- RevAffineAction (example_data.rs)
ActionDefault == [to_reverse |-> FALSE, mul |-> 1, add |-> 0]

\* a plausible slip: the reversals of two actions joined by "or"
ActionAddOrReverse(self, other) ==
    [ to_reverse |-> (self.to_reverse \/ other.to_reverse),
      mul        |-> self.mul * other.mul,
      add        |-> self.add + self.mul * other.add ]

\* self + other: other is applied first, then self
ActionAdd(self, other) ==
    [ to_reverse |-> (self.to_reverse # other.to_reverse),
      mul        |-> self.mul * other.mul,
      add        |-> self.add + self.mul * other.add ]

\* a plausible slip: the constant added before the multiplication
ActValueAddFirst(a, val) == (val + a.add) * a.mul

ActValue(a, val) == val * a.mul + a.add

MapOpt(o, a) == IF o = None THEN None ELSE Some(o[1] * a.mul + a.add)

\* a plausible slip: max and min not swapped under a negative factor
ActSummaryNoSwap(a, s) ==
    [ max  |-> MapOpt(s.max, a),
      min  |-> MapOpt(s.min, a),
      size |-> s.size,
      sum  |-> s.sum * a.mul + a.add * s.size ]

ActSummary(a, s) ==
    [ max  |-> MapOpt(IF a.mul < 0 THEN s.min ELSE s.max, a),
      min  |-> MapOpt(IF a.mul < 0 THEN s.max ELSE s.min, a),
      size |-> s.size,
      sum  |-> s.sum * a.mul + a.add * s.size ]

\* ------------------------------------------------ BasicTree / BasicNode
Empty == [emp |-> TRUE]

NewNode(val, alg) ==
    [ emp |-> FALSE, left |-> Empty, node_value |-> val, right |-> Empty,
      subtree_summary |-> ToSummary(val), action |-> ActionDefault,
      alg_data |-> alg ]

IsEmpty(t) == t.emp

\* the cached summary of a whole subtree, pending action included
SubtreeSummary(t) == IF t.emp THEN SummaryDefault ELSE t.subtree_summary

NodeSummary(t) == IF t.emp THEN SummaryDefault ELSE ToSummary(t.node_value)

\* compose the action into the pending action and apply it to the cache
ActSubtree(t, a) ==
    IF t.emp THEN t
    ELSE [t EXCEPT !.action = ActionAdd(a, t.action),
                   !.subtree_summary = ActSummary(a, t.subtree_summary)]

\* propagate: push the pending action one level down
Access(t) ==
    IF t.emp THEN t
    ELSE [t EXCEPT !.left = IF t.action.to_reverse
                            THEN ActSubtree(t.right, t.action)
                            ELSE ActSubtree(t.left, t.action),
                   !.right = IF t.action.to_reverse
                             THEN ActSubtree(t.left, t.action)
                             ELSE ActSubtree(t.right, t.action),
                   !.node_value = ActValue(t.action, t.node_value),
                   !.action = ActionDefault]

\* rebuild: recompute the cached summary from the children and the value
Rebuild(t) ==
    IF t.emp THEN t
    ELSE [t EXCEPT !.subtree_summary =
            SummaryAdd(SummaryAdd(SubtreeSummary(t.left), ToSummary(t.node_value)),
                       SubtreeSummary(t.right))]

\* iter(): the in-order values, each visited node propagated before recursing
RECURSIVE Iter(_)
\* the in-order values below a propagated node
IterNode(n) == Iter(n.left) \o <<n.node_value>> \o Iter(n.right)

Iter(t) == IF t.emp THEN <<>> ELSE IterNode(Access(t))

RECURSIVE Size(_)
Size(t) == IF t.emp THEN 0 ELSE 1 + Size(t.left) + Size(t.right)

\* the subtree at a path of is_left flags, and the tree with it replaced
RECURSIVE Sub(_, _)
Sub(t, p) ==
    IF p = <<>> THEN t
    ELSE Sub(IF Head(p) THEN t.left ELSE t.right, Tail(p))

RECURSIVE Put(_, _, _)
Put(t, p, s) ==
    IF p = <<>> THEN s
    ELSE IF Head(p) THEN [t EXCEPT !.left = Put(t.left, Tail(p), s)]
         ELSE [t EXCEPT !.right = Put(t.right, Tail(p), s)]

\* --------------------------------------------------------- BasicWalker
Last(s) == s[Len(s)]
Front(s) == SubSeq(s, 1, Len(s) - 1)

EmptyFrame == [left |-> SummaryDefault, right |-> SummaryDefault]

\* a walker at the root of t; the position a walker stands on is kept propagated
NewWalker(t) == [t |-> Access(t), p |-> <<>>, vals |-> <<EmptyFrame>>, panicked |-> FALSE]

Cur(w) == Sub(w.t, w.p)
SetCur(w, s) == [w EXCEPT !.t = Put(w.t, w.p, s)]
Depth(w) == Len(w.p)
WIsEmpty(w) == Cur(w).emp
Panic(w) == [w EXCEPT !.panicked = TRUE]

\* go_left: Err(()) at an empty position (the walker is left as it is);
\* n is the propagated node the walker is on, fr its frame
BasicGoLeftAt(w, n, fr) ==
    IF n.emp THEN w
    ELSE [w EXCEPT
            !.t = Put(w.t, w.p, [n EXCEPT !.left = Access(n.left)]),
            !.p = Append(w.p, TRUE),
            !.vals = Append(w.vals,
                [left |-> fr.left,
                 right |-> SummaryAdd(SummaryAdd(ToSummary(n.node_value),
                               SubtreeSummary(n.right)), fr.right)])]

BasicGoLeft(w) == BasicGoLeftAt(w, Access(Cur(w)), Last(w.vals))

BasicGoRightAt(w, n, fr) ==
    IF n.emp THEN w
    ELSE [w EXCEPT
            !.t = Put(w.t, w.p, [n EXCEPT !.right = Access(n.right)]),
            !.p = Append(w.p, FALSE),
            !.vals = Append(w.vals,
                [left |-> SummaryAdd(fr.left, SummaryAdd(SubtreeSummary(n.left),
                               ToSummary(n.node_value))),
                 right |-> fr.right])]

BasicGoRight(w) == BasicGoRightAt(w, Access(Cur(w)), Last(w.vals))

\* a plausible slip: go_up telling whether the position left was the right son
GoUpResultRightSon(w) == IF w.p = <<>> THEN None ELSE Some(~Last(w.p))

\* Result<bool, ()> of go_up: None for Err(()), Some(b) for Ok(b)
GoUpResult(w) == IF w.p = <<>> THEN None ELSE Some(Last(w.p))

\* go_up: pops the frame and rebuilds the node, at path p2, it arrives at
BasicGoUpTo(w, p2) ==
    [w EXCEPT !.t = Put(w.t, p2, Rebuild(Sub(w.t, p2))),
              !.p = p2,
              !.vals = Front(w.vals)]

BasicGoUp(w) == IF w.p = <<>> THEN w ELSE BasicGoUpTo(w, Front(w.p))

\* dropping a basic walker walks back to the root, rebuilding on the way
RECURSIVE GoToRoot(_)
GoToRoot(w) == IF w.p = <<>> THEN w ELSE GoToRoot(BasicGoUp(w))

\* ------------------------------------------------- Rankable (avl.rs)
Rank(t) == IF t.emp THEN 0 ELSE t.alg_data

RankDiff(t) == IF t.emp THEN 0 ELSE Rank(t.right) - Rank(t.left)

NewRank(t) == MaxOf(Rank(t.left), Rank(t.right)) + 1

RebuildRanks(t) == IF t.emp THEN t ELSE [t EXCEPT !.alg_data = NewRank(t)]

\* the value rebuild_ranks returns: was the stored rank changed
RebuildRanksChanged(t) == IF t.emp THEN TRUE ELSE Rank(t) # NewRank(t)

\* the auxiliary rebuilder handed to a rotation: "ranks" (AVL) or "none"
Rebuilder(rb, n) == IF rb = "ranks" THEN RebuildRanks(n) ELSE n

\* ---------------------------------------------------------- rotations
\* bn1 is the propagated node at the top; its son bn2 takes its place
RotLeftJoin(bn2, low, rb) == Rebuilder(rb, Rebuild([bn2 EXCEPT !.left = low]))

RotLeftTurn(bn1, bn2, rb) ==
    RotLeftJoin(bn2, Rebuilder(rb, Rebuild([bn1 EXCEPT !.right = bn2.left])), rb)

RotLeftNode(bn1, rb) == RotLeftTurn(bn1, Access(bn1.right), rb)

RotRightJoin(bn2, low, rb) == Rebuilder(rb, Rebuild([bn2 EXCEPT !.right = low]))

\* a plausible slip: the inner subtree taken from the wrong side of bn2
RotRightTurnWrongSide(bn1, bn2, rb) ==
    RotRightJoin(bn2, Rebuilder(rb, Rebuild([bn1 EXCEPT !.left = bn2.left])), rb)

RotRightTurn(bn1, bn2, rb) ==
    RotRightJoin(bn2, Rebuilder(rb, Rebuild([bn1 EXCEPT !.left = bn2.right])), rb)

RotRightNode(bn1, rb) == RotRightTurn(bn1, Access(bn1.left), rb)

HasRight(n) == ~n.emp /\ ~n.right.emp
HasLeft(n) == ~n.emp /\ ~n.left.emp

\* rot_left: the right son takes the place of the current node;
\* Err(()), and nothing done, when there is no such son
RotLeftOk(w) == HasRight(Access(Cur(w)))

RotLeftAt(w, n, rb) == IF HasRight(n) THEN SetCur(w, RotLeftNode(n, rb)) ELSE w

RotLeft(w, rb) == RotLeftAt(w, Access(Cur(w)), rb)

\* rot_right: the left son takes the place of the current node
RotRightOk(w) == HasLeft(Access(Cur(w)))

RotRightAt(w, n, rb) == IF HasLeft(n) THEN SetCur(w, RotRightNode(n, rb)) ELSE w

RotRight(w, rb) == RotRightAt(w, Access(Cur(w)), rb)

RotSideOk(w, b) == IF b THEN RotLeftOk(w) ELSE RotRightOk(w)
RotSide(w, b, rb) == IF b THEN RotLeft(w, rb) ELSE RotRight(w, rb)

\* rot_side(b).unwrap(): a panic when there is no son to rotate up
RotSideUnwrap(w, b, rb) == IF RotSideOk(w, b) THEN RotSide(w, b, rb) ELSE Panic(w)

\* rot_up: go up, then rotate the node the walker came from into its place;
\* Err(()) at the root, a panic when the position it came from was empty
RotUp(w, rb) ==
    IF w.p = <<>> THEN w ELSE RotSideUnwrap(BasicGoUp(w), ~Last(w.p), rb)

\* ------------------------------------------------------ AVLWalker (avl.rs)
\* go_up of the AVL walker: on success the node arrived at has its rank rebuilt
AvlGoUpRanks(u) == SetCur(u, RebuildRanks(Cur(u)))

AvlGoUp(w) == IF w.p = <<>> THEN w ELSE AvlGoUpRanks(BasicGoUp(w))

\* assert!(res == Ok(side)) on the result r of a rot_up from b
AssertCameFrom(b, side, r) == IF GoUpResult(b) = Some(side) THEN r ELSE Panic(r)

\* rank difference -2: left is deeper
RebalanceLeftUp(b) == AssertCameFrom(b, TRUE, RotUp(b, "none"))  \* self.walker.rot_up()

RebalanceLeftDouble(a) ==
    IF RotLeftOk(a) THEN RebalanceLeftUp(RotLeft(a, "ranks")) ELSE Panic(a)

RebalanceLeftHeavy(w) ==
    IF RankDiff(Cur(w).left) <= 0
    THEN RotSideUnwrap(w, FALSE, "ranks")       \* self.rot_right().unwrap()
    ELSE RebalanceLeftDouble(BasicGoLeft(w))

\* rank difference 2: left is shallower
RebalanceRightUp(b) == AssertCameFrom(b, FALSE, RotUp(b, "ranks"))  \* self.rot_up()

RebalanceRightDouble(a) ==
    IF RotRightOk(a) THEN RebalanceRightUp(RotRight(a, "ranks")) ELSE Panic(a)

RebalanceRightHeavy(w) ==
    IF RankDiff(Cur(w).right) >= 0
    THEN RotSideUnwrap(w, TRUE, "ranks")        \* self.rot_left().unwrap()
    ELSE RebalanceRightDouble(BasicGoRight(w))

\* one round of the loop of rebalance, at a non-empty position
RebalanceCase(w, rd) ==
    CASE rd = -2 -> RebalanceLeftHeavy(w)
      [] rd \in {-1, 0, 1} -> w
      [] rd = 2 -> RebalanceRightHeavy(w)
      [] OTHER -> Panic(w)                      \* illegal rank difference

RebalanceLocal(w) == RebalanceCase(w, RankDiff(Cur(w)))

\* the end of a round: go up, rebuild the rank there, and go on when the
\* rank has changed and the walker was not at the root
RECURSIVE RebalanceLoop(_)
RebalanceRanks(res, u, n) ==
    IF RebuildRanksChanged(n) /\ res # None
    THEN RebalanceLoop(SetCur(u, RebuildRanks(n)))
    ELSE SetCur(u, RebuildRanks(n))

RebalanceUp(res, u) == RebalanceRanks(res, u, Cur(u))

RebalanceRound(w1) ==
    IF w1.panicked THEN w1 ELSE RebalanceUp(GoUpResult(w1), BasicGoUp(w1))

RebalanceLoop(w) == RebalanceRound(RebalanceLocal(w))

Rebalance(w) == IF WIsEmpty(w) THEN w ELSE RebalanceLoop(w)

\* a plausible slip: the refusal of the basic walker not passed on by ?
AvlInsertNoRefusal(w, val) ==
    Rebalance(AvlGoUp(IF WIsEmpty(w) THEN SetCur(w, NewNode(val, 1)) ELSE w))

\* insert: None at an occupied position
AvlInsert(w, val) ==
    IF ~WIsEmpty(w) THEN w
    ELSE Rebalance(AvlGoUp(SetCur(w, NewNode(val, 1))))

\* the walk of delete to the leftmost node of a subtree
RECURSIVE GoLeftmost(_)
GoLeftmost(w) == IF WIsEmpty(w) THEN w ELSE GoLeftmost(BasicGoLeft(w))

\* the part of delete that runs on the right subtree of the deleted node:
\* takes the next node out; gives the subtree left behind and the node taken
AvlTakeDone(repl, w2) ==
    [rest |-> GoToRoot(w2).t, node |-> repl, panicked |-> w2.panicked]

AvlTake(w0, repl) == AvlTakeDone(repl, Rebalance(SetCur(w0, repl.right)))

AvlTakeAt(w0) == AvlTake(w0, Cur(w0))

AvlTakeNext(right) == AvlTakeAt(BasicGoUp(GoLeftmost(NewWalker(right))))

\* delete: None at an empty position
AvlDeletePut(w, node, nx) ==
    IF nx.panicked THEN Panic(w)
    ELSE Rebalance(BasicGoRight(SetCur(w, RebuildRanks(Rebuild(
            [nx.node EXCEPT !.left = node.left, !.right = nx.rest])))))

AvlDeleteAt(w, node) ==
    IF node.emp THEN w
    ELSE IF node.right.emp THEN Rebalance(SetCur(w, node.left))
    ELSE AvlDeletePut(w, node, AvlTakeNext(node.right))

AvlDelete(w) == AvlDeleteAt(w, Cur(w))

\* the value delete returns
DeleteResultAt(node) == IF node.emp THEN None ELSE Some(node.node_value)

DeleteResult(w) == DeleteResultAt(Cur(w))

\* the walker of an AVL tree has no drop hook of its own: its basic walker's runs
AvlDrop(w) == GoToRoot(w)

\* from_iter: go right as far as possible, insert, and again, on one walker
RECURSIVE GoRightmost(_)
GoRightmost(w) == IF WIsEmpty(w) THEN w ELSE GoRightmost(BasicGoRight(w))

\* a plausible slip: the walk to the rightmost position left out
RECURSIVE AvlFromIterNoGoRight(_, _)
AvlFromIterNoGoRight(w, xs) ==
    IF xs = <<>> \/ w.panicked THEN w
    ELSE AvlFromIterNoGoRight(AvlInsert(w, Head(xs)), Tail(xs))

RECURSIVE AvlFromIterLoop(_, _)
AvlFromIterLoop(w, xs) ==
    IF xs = <<>> \/ w.panicked THEN w
    ELSE AvlFromIterLoop(AvlInsert(GoRightmost(w), Head(xs)), Tail(xs))

AvlFromIter(xs) == AvlDrop(AvlFromIterLoop(NewWalker(Empty), xs))

\* assert_ranks_locally_internal, over the whole tree (assert_correctness)
AssertRanksLocally(n) ==
    /\ (Rank(n) = Rank(n.left) + 1 \/ Rank(n) = Rank(n.right) + 1)
    /\ (Rank(n.left) = Rank(n) - 1 \/ Rank(n.left) = Rank(n) - 2)
    /\ (Rank(n.right) = Rank(n) - 1 \/ Rank(n.right) = Rank(n) - 2)

RECURSIVE AvlAssertCorrectness(_)
AvlAssertCorrectness(t) ==
    t.emp \/ ( /\ AssertRanksLocally(t)
               /\ AvlAssertCorrectness(t.left)
               /\ AvlAssertCorrectness(t.right) )

\* BasicTree::assert_correctness: every node's cached summary is its pending
\* action applied to the sum of its sons' caches and its own value
AssertCorrectnessLocally(t) ==
    t.subtree_summary =
        ActSummary(t.action,
                   SummaryAdd(SummaryAdd(SubtreeSummary(t.left), ToSummary(t.node_value)),
                              SubtreeSummary(t.right)))

RECURSIVE BasicAssertCorrectness(_)
BasicAssertCorrectness(t) ==
    t.emp \/ ( /\ AssertCorrectnessLocally(t)
               /\ BasicAssertCorrectness(t.left)
               /\ BasicAssertCorrectness(t.right) )

\* assert_correctness of the tree of kind k: SplayTree checks the summaries,
\* AVLTree the summaries and then the ranks
AssertCorrectness(k, t) ==
    /\ BasicAssertCorrectness(t)
    /\ k = "avl" => AvlAssertCorrectness(t)

\* -------------------------------------------------- SplayWalker (splay.rs)
\* is_left_son: None at the root
IsLeftSon(w) == IF w.p = <<>> THEN None ELSE Some(Last(w.p))

\* rot_up().unwrap() of the splay steps
RotUpUnwrap(w) == IF w.p = <<>> THEN Panic(w) ELSE RotUp(w, "none")

\* the zig-zig and zig-zag cases; the walker is on the father, b1 tells the
\* side of the node being splayed, b2 the side of the father
SplaySecond(a, b1, b2) ==
    IF a.panicked THEN a
    ELSE IF b1 = b2 THEN RotSideUnwrap(a, ~b1, "none") ELSE RotUpUnwrap(a)

SplayTwoLevels(u, b1, b2) ==
    SplaySecond(IF b1 = b2 THEN RotUpUnwrap(u) ELSE RotSideUnwrap(u, ~b1, "none"),
                b1, b2)

SplayStepFrom(b1, u) ==
    IF IsLeftSon(u) = None THEN RotSideUnwrap(u, ~b1, "none")
    ELSE SplayTwoLevels(u, b1, Last(u.p))

SplayStep(w) ==
    IF WIsEmpty(w) THEN BasicGoUp(w)
    ELSE IF w.p = <<>> THEN w
    ELSE SplayStepFrom(Last(w.p), BasicGoUp(w))

SplayStepDepthFrom(b1, u, depth) ==
    IF Depth(u) <= depth THEN RotSideUnwrap(u, ~b1, "none")
    ELSE IF IsLeftSon(u) = None THEN Panic(u)
    ELSE SplayTwoLevels(u, b1, Last(u.p))

\* a plausible slip: nothing done at an empty position
SplayStepDepthSkipsEmpty(w, depth) ==
    IF Depth(w) <= depth THEN w
    ELSE IF w.p = <<>> THEN Panic(w)
    ELSE IF WIsEmpty(w) THEN w
    ELSE SplayStepDepthFrom(Last(w.p), BasicGoUp(w), depth)

SplayStepDepth(w, depth) ==
    IF Depth(w) <= depth THEN w
    ELSE IF w.p = <<>> THEN Panic(w)
    ELSE IF WIsEmpty(w) THEN BasicGoUp(w)
    ELSE SplayStepDepthFrom(Last(w.p), BasicGoUp(w), depth)

RECURSIVE SplayLoop(_, _)
SplayLoop(w, depth) ==
    IF w.panicked \/ Depth(w) = depth THEN w
    ELSE SplayLoop(SplayStepDepth(w, depth), depth)

SplayToDepth(w, depth) ==
    IF Depth(w) >= depth THEN SplayLoop(w, depth) ELSE Panic(w)

\* a plausible slip: the loop stopped one level early
SplayToDepthOne(w) == IF Depth(w) >= 1 THEN SplayToDepth(w, 1) ELSE w

Splay(w) == SplayToDepth(w, 0)

\* Drop for SplayWalker: splay, then the basic walker's own drop
SplayDropBasic(a) == IF a.panicked THEN a ELSE GoToRoot(a)

SplayDrop(w) == SplayDropBasic(Splay(w))

\* a plausible slip: the walker taken to the father as the AVL walker is
SplayInsertGoesUp(w, value) ==
    IF ~WIsEmpty(w) THEN w ELSE BasicGoUp(SetCur(w, NewNode(value, 0)))

\* insert: None at an occupied position; the walker stays on the new node
SplayInsert(w, value) ==
    IF ~WIsEmpty(w) THEN w ELSE SetCur(w, NewNode(value, 0))

\* the part of delete that runs on the right subtree of the deleted node
SplayTakeDone(ok, repl, w3) ==
    [rest |-> w3.t, node |-> repl,
     panicked |-> ~ok \/ ~repl.left.emp \/ w3.panicked]

SplayTake(ok, w1, repl) == SplayTakeDone(ok, repl, SplayDrop(SetCur(w1, repl.right)))

SplayTakeAt(ok, w1) == SplayTake(ok, w1, Cur(w1))

SplayTakeUp(w0) == SplayTakeAt(GoUpResult(w0) = Some(TRUE), BasicGoUp(w0))

SplayTakeNext(right) == SplayTakeUp(GoLeftmost(NewWalker(right)))

\* a plausible slip: the left subtree of the deleted node not handed over
SplayDeleteLosesLeft(w) ==
    LET node == Cur(w)
        nx == SplayTakeNext(node.right)
    IN  IF node.emp THEN w
        ELSE IF node.right.emp THEN SetCur(w, node.left)
        ELSE IF nx.panicked THEN Panic(w)
        ELSE SetCur(w, Rebuild([nx.node EXCEPT !.right = nx.rest]))

\* delete: None at an empty position
SplayDeletePut(w, node, nx) ==
    IF nx.panicked THEN Panic(w)
    ELSE SetCur(w, Rebuild([nx.node EXCEPT !.left = node.left,
                                           !.right = nx.rest]))

SplayDeleteAt(w, node) ==
    IF node.emp THEN w
    ELSE IF node.right.emp THEN SetCur(w, node.left)
    ELSE SplayDeletePut(w, node, SplayTakeNext(node.right))

SplayDelete(w) == SplayDeleteAt(w, Cur(w))

\* ------------------------------------------------- locators (locator.rs)
All == [k |-> "all"]
IndexLocator(low, high) == [k |-> "index", low |-> low, high |-> high]
LocateByIndexRange(low, high) == IndexLocator(low, high)
LocateByIndex(index) == LocateByIndexRange(index, index + 1)
LeftEdgeLocator(loc) == [k |-> "left_edge", of |-> loc]
RightEdgeLocator(loc) == [k |-> "right_edge", of |-> loc]
LocateByKey(key) == [k |-> "key", key |-> key]
UnionLocator(l1, l2) == [k |-> "union", a |-> l1, b |-> l2]

\* the closure locate_by_key returns: node.get_key().cmp(key), where a value
\* is its own key (Ordered); Less is node < key
LocateKey(loc, node) ==
    IF node = loc.key THEN "Accept"
    ELSE IF node < loc.key THEN "GoLeft"
    ELSE "GoRight"

\* a plausible slip: the answers of the two locators compared the wrong way
UnionOfFirst(a, b) == IF a = b THEN "Accept" ELSE a

\* UnionLocator::locate on the answers a and b of its two locators
UnionOf(a, b) == IF a = b THEN a ELSE "Accept"

\* a plausible slip: the comparison with the high end off by one
LocateIndexOffByOne(loc, left, node) ==
    IF left.size > loc.high THEN "GoLeft"
    ELSE IF left.size + ToSummary(node).size <= loc.low THEN "GoRight"
    ELSE "Accept"

\* a plausible slip: the two tests in the other order
LocateIndexRightFirst(loc, left, node) ==
    IF left.size + ToSummary(node).size <= loc.low THEN "GoRight"
    ELSE IF left.size >= loc.high THEN "GoLeft"
    ELSE "Accept"

\* IndexLocator::locate; the size of a summary is its size field
LocateIndex(loc, left, node) ==
    IF left.size >= loc.high THEN "GoLeft"
    ELSE IF left.size + ToSummary(node).size <= loc.low THEN "GoRight"
    ELSE "Accept"

\* what an edge locator makes of the answer of the locator it is the edge of
EdgeOf(r, side) == IF r = "Accept" THEN side ELSE r

RECURSIVE Locate(_, _, _, _)
Locate(loc, left, node, right) ==
    CASE loc.k = "all" -> "Accept"
      [] loc.k = "index" -> LocateIndex(loc, left, node)
      [] loc.k = "left_edge" -> EdgeOf(Locate(loc.of, left, node, right), "GoLeft")
      [] loc.k = "right_edge" -> EdgeOf(Locate(loc.of, left, node, right), "GoRight")
      [] loc.k = "key" -> LocateKey(loc, node)
      [] loc.k = "union" -> UnionOf(Locate(loc.a, left, node, right),
                                    Locate(loc.b, left, node, right))

\* ------------------------------------- walker summaries (mod.rs, avl.rs)
FarLeftSummary(w) == Last(w.vals).left

\* kind "avl": AVLWalker::far_right_summary; otherwise the basic walker's
FarRightSummary(w, kind) ==
    IF kind = "avl" THEN Last(w.vals).left ELSE Last(w.vals).right

\* left_summary and right_summary of the node n the walker is on
LeftSummaryAt(w, n) ==
    IF ~n.emp THEN SummaryAdd(FarLeftSummary(w), SubtreeSummary(n.left))
    ELSE FarLeftSummary(w)

RightSummaryAt(w, n, kind) ==
    IF ~n.emp THEN SummaryAdd(SubtreeSummary(n.left), FarRightSummary(w, kind))
    ELSE FarRightSummary(w, kind)

LeftSummary(w) == LeftSummaryAt(w, Cur(w))
RightSummary(w, kind) == RightSummaryAt(w, Cur(w), kind)

\* walker_locate: None at an empty position
WalkerLocateAt(w, n, loc, kind) ==
    IF n.emp THEN None
    ELSE Some(Locate(loc, LeftSummaryAt(w, n), n.node_value,
                     RightSummaryAt(w, n, kind)))

WalkerLocate(w, loc, kind) == WalkerLocateAt(w, Cur(w), loc, kind)

\* go_up and drop of the walker of either tree
WGoUp(w, kind) == IF kind = "avl" THEN AvlGoUp(w) ELSE BasicGoUp(w)
WDrop(w, kind) == IF kind = "avl" THEN AvlDrop(w) ELSE SplayDrop(w)

\* ------------------------------------------------------ methods: search
RECURSIVE SearchSubtree(_, _, _)
SearchStep(w, r, loc, kind) ==
    IF r = None \/ r = Some("Accept") THEN w
    ELSE IF r = Some("GoRight") THEN SearchSubtree(BasicGoRight(w), loc, kind)
    ELSE SearchSubtree(BasicGoLeft(w), loc, kind)

SearchSubtree(w, loc, kind) == SearchStep(w, WalkerLocate(w, loc, kind), loc, kind)

Search(t, loc, kind) == SearchSubtree(NewWalker(t), loc, kind)

\* climbs until it leaves a subtree by its right (wantLeft = FALSE) or left
\* (wantLeft = TRUE) side; ok is FALSE when it reached the root without
RECURSIVE ClimbUntil(_, _, _)
ClimbStep(w, u, wantLeft, kind) ==
    IF Last(w.p) = wantLeft THEN [w |-> u, ok |-> TRUE]
    ELSE ClimbUntil(u, wantLeft, kind)

ClimbUntil(w, wantLeft, kind) ==
    IF w.p = <<>> THEN [w |-> w, ok |-> FALSE]
    ELSE ClimbStep(w, WGoUp(w, kind), wantLeft, kind)

\* previous_filled / next_filled: move to the filled node just before / after
PreviousFilled(w, kind) ==
    ClimbUntil(IF WIsEmpty(w) THEN w ELSE GoRightmost(BasicGoLeft(w)), FALSE, kind)

NextFilled(w, kind) ==
    ClimbUntil(IF WIsEmpty(w) THEN w ELSE GoLeftmost(BasicGoRight(w)), TRUE, kind)

\* ------------------------------------- SplayTree segments (splay.rs)
\* the first half of isolate_segment: the walker dropped on the node before
\* the segment; gives b1 and the tree
IsolateDropped(pf) == [b1 |-> pf.ok, t |-> SplayDrop(pf.w).t]

IsolateLeftEdge(t, locator) ==
    IsolateDropped(PreviousFilled(Search(t, LeftEdgeLocator(locator), "splay"), "splay"))

\* go_left().unwrap() / go_right().unwrap()
GoLeftUnwrap(s) ==
    IF s.panicked THEN s ELSE IF WIsEmpty(s) THEN Panic(s) ELSE BasicGoLeft(s)

GoRightUnwrap(s) ==
    IF s.panicked THEN s ELSE IF WIsEmpty(s) THEN Panic(s) ELSE BasicGoRight(s)

\* a plausible slip: the successor always splayed to the root
IsolateSegmentToRoot(t, locator) ==
    LET le == IsolateLeftEdge(t, locator)
        nf == NextFilled(Search(le.t, RightEdgeLocator(locator), "splay"), "splay")
    IN  IF nf.ok THEN GoLeftUnwrap(SplayToDepth(nf.w, 0))
        ELSE IF le.b1 THEN GoRightUnwrap(nf.w)
        ELSE nf.w

\* the second half: the walker on the node after the segment, splayed below
\* the node before it, and the step into the segment
IsolateInto(b1, nf) ==
    IF nf.ok THEN GoLeftUnwrap(SplayToDepth(nf.w, IF b1 THEN 1 ELSE 0))
    ELSE IF b1 THEN GoRightUnwrap(nf.w)
    ELSE nf.w

IsolateRightEdge(le, locator) ==
    IsolateInto(le.b1, NextFilled(Search(le.t, RightEdgeLocator(locator), "splay"),
                                  "splay"))

IsolateSegment(t, locator) == IsolateRightEdge(IsolateLeftEdge(t, locator), locator)

\* segment_summary: the walker is dropped when the function returns
SplaySegmentSummaryOf(walker) ==
    [res |-> SubtreeSummary(Cur(walker)),
     w |-> IF walker.panicked THEN walker ELSE SplayDrop(walker)]

SplaySegmentSummary(t, locator) == SplaySegmentSummaryOf(IsolateSegment(t, locator))

SplayActOn(walker, action) ==
    IF walker.panicked THEN walker
    ELSE SplayDrop(SetCur(walker, ActSubtree(Cur(walker), action)))

SplayActSegment(t, action, locator) == SplayActOn(IsolateSegment(t, locator), action)

\* ------------------------- methods: segment_summary / act_segment (AVL)
RECURSIVE GoUpTimes(_, _, _)
GoUpTimes(w, n, kind) == IF n = 0 THEN w ELSE GoUpTimes(WGoUp(w, kind), n - 1, kind)

\* the summary of the node n and of its right, or left, subtree
NodeAndRight(n) == SummaryAdd(NodeSummary(n), SubtreeSummary(n.right))
LeftAndNode(n) == SummaryAdd(SubtreeSummary(n.left), NodeSummary(n))

\* the walker is left of the node where the segment was found to straddle:
\* every accepted node brings itself and its right subtree
RECURSIVE SummaryOnSuffix(_, _, _, _)
SummaryOnSuffixStep(w, r, loc, kind, acc) ==
    IF r = None THEN [w |-> w, res |-> acc]
    ELSE IF r = Some("Accept")
    THEN SummaryOnSuffix(BasicGoLeft(w), loc, kind,
                         SummaryAdd(NodeAndRight(Cur(w)), acc))
    ELSE IF r = Some("GoRight")
    THEN SummaryOnSuffix(BasicGoRight(w), loc, kind, acc)
    ELSE [w |-> Panic(w), res |-> acc]              \* inconsistent locator

SummaryOnSuffix(w, loc, kind, acc) ==
    SummaryOnSuffixStep(w, WalkerLocate(w, loc, kind), loc, kind, acc)

\* the walker is right of that node: every accepted node brings its left
\* subtree and itself
RECURSIVE SummaryOnPrefix(_, _, _, _)
SummaryOnPrefixStep(w, r, loc, kind, acc) ==
    IF r = None THEN [w |-> w, res |-> acc]
    ELSE IF r = Some("Accept")
    THEN SummaryOnPrefix(BasicGoRight(w), loc, kind,
                         SummaryAdd(acc, LeftAndNode(Cur(w))))
    ELSE IF r = Some("GoLeft")
    THEN SummaryOnPrefix(BasicGoLeft(w), loc, kind, acc)
    ELSE [w |-> Panic(w), res |-> acc]              \* inconsistent locator

SummaryOnPrefix(w, loc, kind, acc) ==
    SummaryOnPrefixStep(w, WalkerLocate(w, loc, kind), loc, kind, acc)

\* at the node where the segment straddles: the part to its left, the node,
\* the part to its right
SummaryJoin(w, pre, suf) ==
    [w |-> suf.w,
     res |-> SummaryAdd(SummaryAdd(pre.res, NodeSummary(Cur(w))), suf.res)]

SummaryRightPart(w, pre, loc, kind) ==
    IF pre.w.panicked THEN pre
    ELSE SummaryJoin(w, pre, SummaryOnPrefix(
                BasicGoRight(GoUpTimes(pre.w, Depth(pre.w) - Depth(w), kind)),
                loc, kind, SummaryDefault))

SummaryAround(w, loc, kind) ==
    SummaryRightPart(w, SummaryOnSuffix(BasicGoLeft(w), loc, kind, SummaryDefault),
                     loc, kind)

RECURSIVE SegmentSummaryWalk(_, _, _)
SegmentSummaryStep(w, r, loc, kind) ==
    IF r = None THEN [w |-> w, res |-> SummaryDefault]
    ELSE IF r = Some("GoRight")
    THEN SegmentSummaryWalk(BasicGoRight(w), loc, kind)
    ELSE IF r = Some("GoLeft")
    THEN SegmentSummaryWalk(BasicGoLeft(w), loc, kind)
    ELSE SummaryAround(w, loc, kind)

SegmentSummaryWalk(w, loc, kind) ==
    SegmentSummaryStep(w, WalkerLocate(w, loc, kind), loc, kind)

\* the walker is dropped when the function returns
SegmentSummaryDropped(r, kind) ==
    [res |-> r.res, w |-> IF r.w.panicked THEN r.w ELSE WDrop(r.w, kind)]

MethodsSegmentSummary(t, loc, kind) ==
    SegmentSummaryDropped(SegmentSummaryWalk(NewWalker(t), loc, kind), kind)

\* act_node / act_left_subtree / act_right_subtree at a filled position;
\* n is the propagated node the walker is on
ActNodeAt(w, n, a) ==
    SetCur(w, Rebuild([n EXCEPT !.node_value = ActValue(a, n.node_value)]))

ActNode(w, a) == ActNodeAt(w, Access(Cur(w)), a)

ActLeftSubtreeAt(w, n, a) ==
    SetCur(w, Rebuild([n EXCEPT !.left = ActSubtree(n.left, a)]))

ActLeftSubtree(w, a) == ActLeftSubtreeAt(w, Access(Cur(w)), a)

ActRightSubtreeAt(w, n, a) ==
    SetCur(w, Rebuild([n EXCEPT !.right = ActSubtree(n.right, a)]))

ActRightSubtree(w, a) == ActRightSubtreeAt(w, Access(Cur(w)), a)

RECURSIVE ActOnSuffix(_, _, _, _)
ActOnSuffixStep(w, r, loc, kind, a) ==
    IF r = None THEN w
    ELSE IF r = Some("Accept")
    THEN ActOnSuffix(BasicGoLeft(ActRightSubtree(ActNode(w, a), a)), loc, kind, a)
    ELSE IF r = Some("GoRight") THEN ActOnSuffix(BasicGoRight(w), loc, kind, a)
    ELSE Panic(w)                                   \* inconsistent locator

ActOnSuffix(w, loc, kind, a) ==
    ActOnSuffixStep(w, WalkerLocate(w, loc, kind), loc, kind, a)

RECURSIVE ActOnPrefix(_, _, _, _)
ActOnPrefixStep(w, r, loc, kind, a) ==
    IF r = None THEN w
    ELSE IF r = Some("Accept")
    THEN ActOnPrefix(BasicGoRight(ActLeftSubtree(ActNode(w, a), a)), loc, kind, a)
    ELSE IF r = Some("GoLeft") THEN ActOnPrefix(BasicGoLeft(w), loc, kind, a)
    ELSE Panic(w)                                   \* inconsistent locator

ActOnPrefix(w, loc, kind, a) ==
    ActOnPrefixStep(w, WalkerLocate(w, loc, kind), loc, kind, a)

\* at the node where the segment straddles: the node, the part to its
\* left, the part to its right
ActRightPart(w, pre, loc, kind, a) ==
    IF pre.panicked THEN pre
    ELSE ActOnPrefix(BasicGoRight(GoUpTimes(pre, Depth(pre) - Depth(w), kind)),
                     loc, kind, a)

ActAround(w, loc, kind, a) ==
    ActRightPart(w, ActOnSuffix(BasicGoLeft(ActNode(w, a)), loc, kind, a),
                 loc, kind, a)

RECURSIVE ActSegmentWalk(_, _, _, _)
ActSegmentStep(w, r, loc, kind, a) ==
    IF r = None THEN w
    ELSE IF r = Some("GoRight") THEN ActSegmentWalk(BasicGoRight(w), loc, kind, a)
    ELSE IF r = Some("GoLeft") THEN ActSegmentWalk(BasicGoLeft(w), loc, kind, a)
    ELSE ActAround(w, loc, kind, a)

ActSegmentWalk(w, loc, kind, a) ==
    ActSegmentStep(w, WalkerLocate(w, loc, kind), loc, kind, a)

\* the walker is dropped when the function returns
ActSegmentDropped(w, kind) == IF w.panicked THEN w ELSE WDrop(w, kind)

MethodsActSegment(t, a, loc, kind) ==
    ActSegmentDropped(ActSegmentWalk(NewWalker(t), loc, kind, a), kind)

\* AVLTree::segment_summary and AVLTree::act_segment (todo!() on a reversal)
AvlSegmentSummary(t, locator) == MethodsSegmentSummary(t, locator, "avl")

AvlActSegment(t, action, locator) ==
    IF action.to_reverse = FALSE THEN MethodsActSegment(t, action, locator, "avl")
    ELSE Panic(NewWalker(t))

\* --------------------------- concatenate and split of SplayTree (splay.rs)
\* the tree `other` as the result of the call, with no walker left on it
Replaced(o) == [t |-> o, p |-> <<>>, vals |-> <<EmptyFrame>>, panicked |-> FALSE]

\* a plausible slip: the other tree attached on the left
ConcatenateAttachLeft(s, o) ==
    IF s.panicked THEN s
    ELSE IF ~Cur(s).right.emp THEN Panic(s)
    ELSE SetCur(s, Rebuild([Cur(s) EXCEPT !.right = Cur(s).left, !.left = o]))

\* the walker s is on the rightmost node, splayed to the root:
\* assert!(node.right.is_empty()); node.right = other; node.rebuild()
ConcatenateAttach(s, o) ==
    IF s.panicked THEN s
    ELSE IF ~Cur(s).right.emp THEN Panic(s)
    ELSE SetCur(s, Rebuild([Cur(s) EXCEPT !.right = o]))

\* w0 is the walker gone right as far as possible; the walker is dropped
\* when the function returns
ConcatenateFrom(w0, o) ==
    IF GoUpResult(w0) = None THEN Replaced(o)           \* *self = other
    ELSE IF GoUpResult(w0) = Some(TRUE) THEN Panic(w0)  \* unreachable!()
    ELSE SplayDrop(ConcatenateAttach(Splay(BasicGoUp(w0)), o))

ConcatenateRight(t, o) == ConcatenateFrom(GoRightmost(NewWalker(t)), o)

\* a plausible slip: the two trees not exchanged when the cut is on the left
SplitCutNoSwap(b, s) ==
    IF s.panicked \/ WIsEmpty(s) THEN [w |-> Panic(s), res |-> None]
    ELSE IF b
    THEN [w |-> SetCur(s, Rebuild([Cur(s) EXCEPT !.left = Empty])),
          res |-> Some(Cur(s).left)]
    ELSE [w |-> SetCur(s, Rebuild([Cur(s) EXCEPT !.right = Empty])),
          res |-> Some(Cur(s).right)]

\* split_right after go_up (b tells the side the walker came from) and
\* splay: w is the walker that stays, res the tree returned
SplitCut(b, s) ==
    IF s.panicked \/ WIsEmpty(s) THEN [w |-> Panic(s), res |-> None]
    ELSE IF b
    THEN [w |-> SetCur(s, Cur(s).left),
          res |-> Some(Rebuild([Cur(s) EXCEPT !.left = Empty]))]
    ELSE [w |-> SetCur(s, Rebuild([Cur(s) EXCEPT !.right = Empty])),
          res |-> Some(Cur(s).right)]

\* a plausible slip: the side of the cut not looked at
SplitRightOneSide(w) ==
    IF ~WIsEmpty(w) THEN [w |-> w, res |-> None]
    ELSE IF w.p = <<>> THEN [w |-> w, res |-> Some(Empty)]
    ELSE SplitCut(FALSE, Splay(BasicGoUp(w)))

\* split_right: None at an occupied position
SplitRight(w) ==
    IF ~WIsEmpty(w) THEN [w |-> w, res |-> None]
    ELSE IF w.p = <<>> THEN [w |-> w, res |-> Some(Empty)]   \* SplayTree::new()
    ELSE SplitCut(Last(w.p), Splay(BasicGoUp(w)))

\* ------------------------------------------------ from_iter of both trees
\* BasicTree::from_iter, which SplayTree::from_iter collects into
RECURSIVE BasicFromIterLoop(_, _)
BasicFromIterLoop(w, xs) ==
    IF xs = <<>> THEN w
    ELSE BasicFromIterLoop(SplayInsert(GoRightmost(w), Head(xs)), Tail(xs))

SplayFromIter(xs) == GoToRoot(BasicFromIterLoop(NewWalker(Empty), xs))

\* ----------------------------------------------------- the state machine
\* kind: which tree the behaviour is about; tree: the tree; wk: the open
\* walker, if any; panicked: a call has panicked.  The others record the
\* history the properties speak about: last is the last call with its
\* arguments, the in-order sequence before it and its result; nins, nact
\* and nqry count the inserts, segment actions and segment queries;
\* only_inserts tells that the tree was built from the empty tree by walker
\* inserts alone.
\* suite: which family of behaviours this one belongs to ("walker",
\* "segment", "split" or "telescope"); other: the second tree of the split
\* and concatenate calls; nsplit counts the splits.
\* tel: a Telescope (head and vec); stack and cnt record its history: the
\* references it should hold, and how many were pushed and popped.
VARIABLES kind, tree, wk, last, nins, nact, nqry, panicked, only_inserts,
          suite, other, nsplit, tel, stack, cnt
vars == <<kind, tree, wk, last, nins, nact, nqry, panicked, only_inserts,
          suite, other, nsplit, tel, stack, cnt>>

\* the second tree and the telescope, which the tree operations leave alone
splitvars == <<other, nsplit>>
telvars == <<tel, stack, cnt>>

NoWalker == [open |-> FALSE, p |-> <<>>, vals |-> <<>>]

\* the open walker as a value of the walker operators, and back
W == [t |-> tree, p |-> wk.p, vals |-> wk.vals, panicked |-> FALSE]
Keep(w) == [open |-> TRUE, p |-> w.p, vals |-> w.vals]

\* the in-order index of the position at path p of t
RECURSIVE IndexOf(_, _)
IndexOf(t, p) ==
    IF t.emp THEN 0
    ELSE IF p = <<>> THEN Size(t.left)
    ELSE IF Head(p) THEN IndexOf(t.left, Tail(p))
    ELSE Size(t.left) + 1 + IndexOf(t.right, Tail(p))

\* the value on the walker's position, or else on the father of the position
NodeOn(w) ==
    IF ~WIsEmpty(w) THEN Some(Cur(w).node_value)
    ELSE IF w.p = <<>> THEN None
    ELSE Some(Sub(w.t, Front(w.p)).node_value)

\* the in-order index of that node
NodeIndexOn(w) ==
    IF ~WIsEmpty(w) THEN IndexOf(w.t, w.p)
    ELSE IF w.p = <<>> THEN 0
    ELSE IndexOf(w.t, Front(w.p))

Actions ==
    { [to_reverse |-> FALSE, mul |-> -1, add |-> 3],
      [to_reverse |-> TRUE, mul |-> 1, add |-> 0] }

MaxInserts ==
    IF suite = "rebalance" THEN MaxRebalanceInserts
    ELSE IF kind = "avl" THEN MaxAvlInserts ELSE MaxSplayInserts

\* the locators of the segment calls: everything, and the index ranges
\* of the tree, the empty ones included
Locators ==
    {All} \cup UNION { { LocateByIndexRange(lo, hi) : hi \in lo..Size(tree) } :
                        lo \in 0..Size(tree) }

Seqs(S, n) == UNION { [1..m -> S] : m \in 0..n }

\* no second tree; a telescope on the reference 0 that nothing is done with
NoSplit == other = None /\ nsplit = 0
NoTelescope == tel = [head |-> 0, vec |-> <<>>] /\ stack = <<>> /\ cnt = [push |-> 0, pop |-> 0]

Init ==
    /\ kind \in {"avl", "splay"}
    /\ tree = Empty
    /\ wk = NoWalker
    /\ last = [op |-> "new"]
    /\ nins = 0 /\ nact = 0 /\ nqry = 0
    /\ panicked = FALSE
    /\ only_inserts = TRUE
    /\ suite = "walker"
    /\ NoSplit /\ NoTelescope

FromIterOf(k, xs) == IF k = "avl" THEN AvlFromIter(xs) ELSE SplayFromIter(xs)

\* the segment tests start from a tree collected from a sequence 1..n
InitSeg ==
    /\ kind \in {"avl", "splay"}
    /\ \E n \in 0..MaxSegLen :
       \E xs \in {[i \in 1..n |-> i]} :
        /\ tree = FromIterOf(kind, xs).t
        /\ last = [op |-> "from_iter", xs |-> xs]
        /\ nins = n
    /\ wk = NoWalker
    /\ nact = 0 /\ nqry = 0
    /\ panicked = FALSE
    /\ only_inserts = FALSE
    /\ suite = "segment"
    /\ NoSplit /\ NoTelescope

\* the walker's result w becomes the state (a panic ends the program)
Becomes(w) ==
    /\ tree' = w.t
    /\ panicked' = w.panicked
    /\ wk' = IF w.panicked THEN NoWalker ELSE Keep(w)

\* the tree's result w becomes the state, the walker of the call is gone
BecomesTree(w) ==
    /\ tree' = w.t
    /\ panicked' = w.panicked
    /\ wk' = NoWalker

\* Every action computes the result of its call once (r) and then lets it
\* become the state.
FromIter ==
    /\ ~panicked /\ ~wk.open /\ nins = 0 /\ tree = Empty
    /\ \E xs \in Seqs(1..MaxVal, MaxInserts) :
       \E r \in {FromIterOf(kind, xs)} :
        /\ BecomesTree(r)
        /\ last' = [op |-> "from_iter", xs |-> xs]
        /\ nins' = Len(xs)
    /\ UNCHANGED <<suite, splitvars, telvars, kind, nact, nqry>>
    /\ only_inserts' = FALSE

Walker ==
    /\ ~panicked /\ ~wk.open
    /\ \E r \in {NewWalker(tree)} : Becomes(r)
    /\ last' = [op |-> "walker"]
    /\ UNCHANGED <<suite, splitvars, telvars, kind, nins, nact, nqry, only_inserts>>

GoLeft ==
    /\ ~panicked /\ wk.open
    /\ \E r \in {BasicGoLeft(W)} : Becomes(r)
    /\ last' = [op |-> "go_left", res |-> ~WIsEmpty(W)]
    /\ UNCHANGED <<suite, splitvars, telvars, kind, nins, nact, nqry, only_inserts>>

GoRight ==
    /\ ~panicked /\ wk.open
    /\ \E r \in {BasicGoRight(W)} : Becomes(r)
    /\ last' = [op |-> "go_right", res |-> ~WIsEmpty(W)]
    /\ UNCHANGED <<suite, splitvars, telvars, kind, nins, nact, nqry, only_inserts>>

GoUp ==
    /\ ~panicked /\ wk.open
    /\ \E r \in {WGoUp(W, kind)} : Becomes(r)
    /\ last' = [op |-> "go_up", res |-> GoUpResult(W)]
    /\ UNCHANGED <<suite, splitvars, telvars, kind, nins, nact, nqry, only_inserts>>

Insert ==
    /\ ~panicked /\ wk.open /\ nins < MaxInserts
    /\ \E val \in {nins + 1} :
       \E r \in {IF kind = "avl" THEN AvlInsert(W, val) ELSE SplayInsert(W, val)} :
        /\ Becomes(r)
        /\ last' = [op |-> "insert", pre |-> Iter(tree), idx |-> IndexOf(tree, wk.p),
                    val |-> val, res |-> IF WIsEmpty(W) THEN Some(TRUE) ELSE None]
        /\ nins' = IF WIsEmpty(W) THEN nins + 1 ELSE nins
    /\ UNCHANGED <<suite, splitvars, telvars, kind, nact, nqry, only_inserts>>

Delete ==
    /\ ~panicked /\ wk.open
    /\ \E r \in {IF kind = "avl" THEN AvlDelete(W) ELSE SplayDelete(W)} : Becomes(r)
    /\ last' = [op |-> "delete", pre |-> Iter(tree), idx |-> IndexOf(tree, wk.p),
                occ |-> ~WIsEmpty(W), res |-> DeleteResult(W)]
    /\ UNCHANGED <<suite, splitvars, telvars, kind, nins, nact, nqry>>
    /\ only_inserts' = FALSE

SplayOp ==
    /\ ~panicked /\ wk.open /\ kind = "splay"
    /\ \E r \in {Splay(W)} : Becomes(r)
    /\ last' = [op |-> "splay", pre |-> Iter(tree), depth |-> Depth(W),
                on |-> NodeOn(W), onidx |-> NodeIndexOn(W)]
    /\ UNCHANGED <<suite, splitvars, telvars, kind, nins, nact, nqry, only_inserts>>

Drop ==
    /\ ~panicked /\ wk.open
    /\ \E r \in {WDrop(W, kind)} : BecomesTree(r)
    /\ last' = [op |-> "drop", pre |-> Iter(tree), depth |-> Depth(W),
                on |-> NodeOn(W), onidx |-> NodeIndexOn(W)]
    /\ UNCHANGED <<suite, splitvars, telvars, kind, nins, nact, nqry, only_inserts>>

SegmentSummary ==
    /\ ~panicked /\ ~wk.open /\ nact + nqry < MaxSegOps
    /\ \E loc \in Locators :
       \E r \in {IF kind = "avl" THEN AvlSegmentSummary(tree, loc)
                 ELSE SplaySegmentSummary(tree, loc)} :
        /\ BecomesTree(r.w)
        /\ last' = [op |-> "segment_summary", loc |-> loc, pre |-> Iter(tree),
                    res |-> r.res]
    /\ nqry' = nqry + 1
    /\ UNCHANGED <<suite, splitvars, telvars, kind, nins, nact, only_inserts>>

ActSegment ==
    /\ ~panicked /\ ~wk.open /\ nact + nqry < MaxSegOps
    /\ \E loc \in Locators, a \in Actions :
       \E r \in {IF kind = "avl" THEN AvlActSegment(tree, a, loc)
                 ELSE SplayActSegment(tree, a, loc)} :
        /\ BecomesTree(r)
        /\ last' = [op |-> "act_segment", loc |-> loc, a |-> a, pre |-> Iter(tree)]
    /\ nact' = nact + 1
    /\ UNCHANGED <<suite, splitvars, telvars, kind, nins, nqry, only_inserts>>

\* insert and delete as the tests use them: search, act, drop the walker
InsertAt ==
    /\ ~panicked /\ ~wk.open /\ nins < MaxInserts
    /\ \E i \in 0..Size(tree) :
       \E w \in {Search(tree, LocateByIndexRange(i, i), kind)} :
       \E r \in {IF kind = "avl" THEN AvlInsert(w, nins + 1)
                 ELSE SplayInsert(w, nins + 1)} :
       \E d \in {IF r.panicked THEN r ELSE WDrop(r, kind)} :
        /\ BecomesTree(d)
        /\ last' = [op |-> "insert_at", pre |-> Iter(tree), idx |-> i, val |-> nins + 1,
                    preok |-> AvlAssertCorrectness(tree)]
    /\ nins' = nins + 1
    /\ UNCHANGED <<suite, splitvars, telvars, kind, nact, nqry, only_inserts>>

DeleteAt ==
    /\ ~panicked /\ ~wk.open
    /\ \E i \in 0..(Size(tree) - 1) :
       \E w \in {Search(tree, LocateByIndex(i), kind)} :
       \E r \in {IF kind = "avl" THEN AvlDelete(w) ELSE SplayDelete(w)} :
       \E d \in {IF r.panicked THEN r ELSE WDrop(r, kind)} :
        /\ BecomesTree(d)
        /\ last' = [op |-> "delete_at", pre |-> Iter(tree), idx |-> i,
                    res |-> DeleteResult(w), preok |-> AvlAssertCorrectness(tree)]
    /\ UNCHANGED <<suite, splitvars, telvars, kind, nins, nact, nqry>>
    /\ only_inserts' = FALSE

\* isolate_segment: the walker it returns stays open
Isolate ==
    /\ ~panicked /\ ~wk.open /\ nact + nqry < MaxSegOps /\ kind = "splay"
    /\ \E loc \in Locators :
       \E r \in {IsolateSegment(tree, loc)} :
        /\ Becomes(r)
        /\ last' = [op |-> "isolate_segment", loc |-> loc, pre |-> Iter(tree)]
    /\ nqry' = nqry + 1
    /\ UNCHANGED <<suite, splitvars, telvars, kind, nins, nact, only_inserts>>

\* the walker-level behaviours: one walker at a time, moved step by step,
\* and the whole insert and delete calls of the tests
Next ==
    \/ FromIter \/ Walker \/ GoLeft \/ GoRight \/ GoUp \/ Insert \/ Delete
    \/ SplayOp \/ Drop \/ InsertAt \/ DeleteAt

Spec == Init /\ [][Next]_vars

\* the segment-level behaviours: whole segment calls on a collected tree
NextSeg == Isolate \/ Drop \/ SegmentSummary \/ ActSegment

SpecSeg == InitSeg /\ [][NextSeg]_vars

\* the split tests start from a splay tree collected from a sequence 1..n
InitSplit ==
    /\ kind = "splay"
    /\ \E n \in 0..MaxSplitLen :
       \E xs \in {[i \in 1..n |-> i]} :
        /\ tree = FromIterOf(kind, xs).t
        /\ last = [op |-> "from_iter", xs |-> xs]
        /\ nins = n
    /\ wk = NoWalker
    /\ nact = 0 /\ nqry = 0
    /\ panicked = FALSE
    /\ only_inserts = FALSE
    /\ suite = "split"
    /\ NoSplit /\ NoTelescope

\* split_right as the tests use it: search a gap (or, to be refused, an
\* element), split there, drop the walker; the tree returned is kept in other
SplitAt ==
    /\ ~panicked /\ ~wk.open /\ kind = "splay" /\ other = None /\ nsplit < MaxSplits
    /\ \E loc \in { LocateByIndexRange(i, i) : i \in 0..Size(tree) }
                  \cup { LocateByIndex(i) : i \in 0..(Size(tree) - 1) } :
       \E w \in {Search(tree, loc, kind)} :
       \E r \in {SplitRight(w)} :
       \E d \in {IF r.w.panicked THEN r.w ELSE SplayDrop(r.w)} :
        /\ BecomesTree(d)
        /\ other' = r.res
        /\ last' = [op |-> "split_right", pre |-> Iter(tree), idx |-> loc.low,
                    occ |-> ~WIsEmpty(w), wasleft |-> GoUpResult(w), res |-> r.res,
                    depth |-> Depth(r.w)]
    /\ nsplit' = nsplit + 1
    /\ UNCHANGED <<suite, telvars, kind, nins, nact, nqry, only_inserts>>

\* concatenate_right with the tree kept in other
Concatenate ==
    /\ ~panicked /\ ~wk.open /\ kind = "splay" /\ other # None
    /\ \E r \in {ConcatenateRight(tree, other[1])} :
        /\ BecomesTree(r)
        /\ last' = [op |-> "concatenate", a |-> tree, b |-> other[1]]
    /\ other' = None
    /\ UNCHANGED <<suite, telvars, nsplit, kind, nins, nact, nqry, only_inserts>>

NextSplit == ActSegment \/ SplitAt \/ Concatenate

SpecSplit == InitSplit /\ [][NextSplit]_vars

\* ------------------------------------------------ Telescope (telescope.rs)
\* head: the current reference; vec: the references below it, oldest first
Refs == 1..MaxRef

TelescopeNew(r) == [head |-> r, vec |-> <<>>]

TelescopeSize(t) == Len(t.vec) + 1

\* a plausible slip: the head replaced without being saved
TelescopePushNoSave(t, r) == [t EXCEPT !.head = r]

\* self.vec.push(self.head); self.head = r
TelescopePush(t, r) == [head |-> r, vec |-> Append(t.vec, t.head)]

\* fr is what func returned for the head: Some(p) for Ok(p), None for Err
ExtendResultPrecise(t, fr) ==
    IF fr # None THEN [tel |-> TelescopePush(t, fr[1]), ok |-> TRUE]
    ELSE [tel |-> t, ok |-> FALSE]

MapResultPrecise(t, fr) ==
    IF fr # None THEN [tel |-> [t EXCEPT !.head = fr[1]], ok |-> TRUE]
    ELSE [tel |-> t, ok |-> FALSE]

\* a plausible slip: the original reference handed out as well
TelescopePopOriginal(t) ==
    IF t.vec = <<>> THEN [tel |-> t, res |-> Some(t.head)]
    ELSE [tel |-> [head |-> Last(t.vec), vec |-> Front(t.vec)], res |-> Some(t.head)]

\* let res = head; self.head = self.vec.pop()?; Some(res)
TelescopePop(t) ==
    IF t.vec = <<>> THEN [tel |-> t, res |-> None]
    ELSE [tel |-> [head |-> Last(t.vec), vec |-> Front(t.vec)], res |-> Some(t.head)]

\* Telescope::new(r)
InitTel ==
    /\ suite = "telescope"
    /\ \E r \in Refs : tel = TelescopeNew(r)
    /\ stack = <<>>
    /\ cnt = [push |-> 0, pop |-> 0]
    /\ last = [op |-> "new"]
    /\ kind = "splay" /\ tree = Empty /\ wk = NoWalker
    /\ nins = 0 /\ nact = 0 /\ nqry = 0
    /\ panicked = FALSE /\ only_inserts = FALSE
    /\ NoSplit

\* stack is the history of the calls, kept apart from the telescope: the
\* tops that were current when the extends and pushes not yet popped were made
Extend ==
    /\ suite = "telescope"
    /\ \E fr \in {None} \cup {Some(p) : p \in Refs} :
       \E r \in {ExtendResultPrecise(tel, fr)} :
        /\ r.ok => cnt.push < MaxPushes
        /\ tel' = r.tel
        /\ stack' = IF r.ok THEN Append(stack, tel.head) ELSE stack
        /\ cnt' = IF r.ok THEN [cnt EXCEPT !.push = @ + 1] ELSE cnt
        /\ last' = [op |-> "extend", top |-> tel.head, size |-> TelescopeSize(tel),
                    ok |-> r.ok, fr |-> fr]
    /\ UNCHANGED <<suite, splitvars, kind, tree, wk, nins, nact, nqry, panicked,
                   only_inserts>>

Push ==
    /\ suite = "telescope" /\ cnt.push < MaxPushes
    /\ \E p \in Refs :
        /\ tel' = TelescopePush(tel, p)
        /\ last' = [op |-> "push", top |-> tel.head, size |-> TelescopeSize(tel),
                    ok |-> TRUE, fr |-> Some(p)]
    /\ stack' = Append(stack, tel.head)
    /\ cnt' = [cnt EXCEPT !.push = @ + 1]
    /\ UNCHANGED <<suite, splitvars, kind, tree, wk, nins, nact, nqry, panicked,
                   only_inserts>>

Map ==
    /\ suite = "telescope"
    /\ \E fr \in {None} \cup {Some(p) : p \in Refs} :
       \E r \in {MapResultPrecise(tel, fr)} :
        /\ tel' = r.tel
        /\ last' = [op |-> "map", top |-> tel.head, size |-> TelescopeSize(tel),
                    ok |-> r.ok, fr |-> fr]
    /\ UNCHANGED <<stack, cnt>>
    /\ UNCHANGED <<suite, splitvars, kind, tree, wk, nins, nact, nqry, panicked,
                   only_inserts>>

Pop ==
    /\ suite = "telescope"
    /\ \E r \in {TelescopePop(tel)} :
        /\ tel' = r.tel
        /\ stack' = IF r.res # None THEN Front(stack) ELSE stack
        /\ cnt' = IF r.res # None THEN [cnt EXCEPT !.pop = @ + 1] ELSE cnt
        /\ last' = [op |-> "pop", top |-> tel.head, size |-> TelescopeSize(tel),
                    res |-> r.res,
                    below |-> IF stack = <<>> THEN None ELSE Some(Last(stack))]
    /\ UNCHANGED <<suite, splitvars, kind, tree, wk, nins, nact, nqry, panicked,
                   only_inserts>>

NextTel == Extend \/ Push \/ Map \/ Pop

SpecTel == InitTel /\ [][NextTel]_vars

\* ------------------------------------------ the locators on ordered trees
\* a tree collected from 1..n: in key order, the value at index i is i + 1
InitLoc ==
    /\ kind \in {"avl", "splay"}
    /\ \E n \in 0..MaxLocLen :
       \E xs \in {[i \in 1..n |-> i]} :
        /\ tree = FromIterOf(kind, xs).t
        /\ last = [op |-> "from_iter", xs |-> xs]
        /\ nins = n
    /\ wk = NoWalker
    /\ nact = 0 /\ nqry = 0
    /\ panicked = FALSE
    /\ only_inserts = FALSE
    /\ suite = "locator"
    /\ NoSplit /\ NoTelescope

IndexRanges == { LocateByIndexRange(lo, hi) : lo, hi \in 0..(MaxLocLen + 1) }

NonEmptyRanges == { r \in IndexRanges : r.low < r.high /\ r.high <= MaxLocLen }

\* search: the walker it returns stays open
SearchBy(loc) ==
    /\ ~panicked /\ ~wk.open
    /\ \E r \in {Search(tree, loc, kind)} : Becomes(r)
    /\ last' = [op |-> "search", loc |-> loc, pre |-> Iter(tree)]
    /\ UNCHANGED <<suite, splitvars, telvars, kind, nins, nact, nqry, only_inserts>>

SearchByKey == \E key \in 0..(MaxLocLen + 1) : SearchBy(LocateByKey(key))

SearchByIndexRange == \E loc \in IndexRanges : SearchBy(loc)

\* segment_summary of the union of two non-empty index ranges
UnionSummary ==
    /\ ~panicked /\ ~wk.open
    /\ \E l1 \in NonEmptyRanges, l2 \in NonEmptyRanges :
       \E r \in {IF kind = "avl" THEN AvlSegmentSummary(tree, UnionLocator(l1, l2))
                 ELSE SplaySegmentSummary(tree, UnionLocator(l1, l2))} :
        /\ BecomesTree(r.w)
        /\ last' = [op |-> "segment_summary", loc |-> UnionLocator(l1, l2),
                    pre |-> Iter(tree), res |-> r.res]
    /\ UNCHANGED <<suite, splitvars, telvars, kind, nins, nact, nqry, only_inserts>>

NextLoc == SearchByKey \/ SearchByIndexRange \/ UnionSummary \/ Drop

SpecLoc == InitLoc /\ [][NextLoc]_vars

\* ------------------------------------- the splay steps, one call at a time
InitSplay ==
    /\ kind = "splay"
    /\ \E n \in 0..MaxSplayLen :
       \E xs \in {[i \in 1..n |-> i]} :
        /\ tree = FromIterOf(kind, xs).t
        /\ last = [op |-> "from_iter", xs |-> xs]
        /\ nins = n
    /\ wk = NoWalker
    /\ nact = 0 /\ nqry = 0
    /\ panicked = FALSE
    /\ only_inserts = FALSE
    /\ suite = "splay"
    /\ NoSplit /\ NoTelescope

\* splay_to_depth is inside its while loop
Looping == last.op = "splay_to_depth" /\ last.running

\* one call of splay_step
SplayStepOp ==
    /\ ~panicked /\ wk.open
    /\ \E r \in {SplayStep(W)} : Becomes(r)
    /\ last' = [op |-> "splay_step", depth |-> Depth(W), occ |-> ~WIsEmpty(W)]
    /\ UNCHANGED <<suite, splitvars, telvars, kind, nins, nact, nqry, only_inserts>>

\* splay_to_depth(d) is called: assert!(self.depth() >= depth), then the loop
SplayToDepthCall ==
    /\ ~panicked /\ wk.open
    /\ \E d \in 0..(Depth(W) + 1) :
        /\ last' = [op |-> "splay_to_depth", d |-> d, running |-> Depth(W) >= d,
                    pret |-> tree, prep |-> wk.p]
        /\ panicked' = (Depth(W) < d)
    /\ UNCHANGED <<tree, wk>>
    /\ UNCHANGED <<suite, splitvars, telvars, kind, nins, nact, nqry, only_inserts>>

\* a plausible slip: the loop left one level early
LoopConditionStopsEarly == Depth(W) > last.d + 1

\* while self.walker.depth() != depth
LoopCondition == Depth(W) # last.d

\* the loop of splay_to_depth has a round to make
RoundIsDue == ~panicked /\ Looping /\ LoopCondition

\* one round of while self.walker.depth() != depth { self.splay_step_depth(depth) }
SplayLoopRound ==
    /\ RoundIsDue
    /\ \E r \in {SplayStepDepth(W, last.d)} : Becomes(r)
    /\ UNCHANGED last
    /\ UNCHANGED <<suite, splitvars, telvars, kind, nins, nact, nqry, only_inserts>>

\* the loop condition fails and splay_to_depth returns
SplayLoopExit ==
    /\ ~panicked /\ Looping /\ ~LoopCondition
    /\ last' = [last EXCEPT !.running = FALSE]
    /\ UNCHANGED <<tree, wk, panicked>>
    /\ UNCHANGED <<suite, splitvars, telvars, kind, nins, nact, nqry, only_inserts>>

NextSplay ==
    \/ /\ ~Looping
       /\ \/ (nact = 0 /\ ActSegment)
          \/ Walker \/ GoLeft \/ GoRight \/ SplayStepOp
          \/ SplayToDepthCall \/ Drop
    \/ SplayLoopRound
    \/ SplayLoopExit

SpecSplay == InitSplay /\ [][NextSplay]_vars

\* the loop alone, on trees without pending actions: a walker is taken down
\* the tree and splayed to some depth, again and again.
NextLoop ==
    \/ (~Looping /\ (Walker \/ GoLeft \/ GoRight \/ SplayToDepthCall))
    \/ SplayLoopRound
    \/ SplayLoopExit

\* The loop is the only thing its thread does, so the thread does not stop
\* inside it: the exit is taken when its condition fails, and a round is made
\* whenever one is due (weak fairness of SplayLoopRound, with RoundIsDue
\* standing for its enabling condition).
LoopFairness ==
    /\ WF_vars(SplayLoopExit)
    /\ ([]<>(~RoundIsDue) \/ []<><<SplayLoopRound>>_vars)

SpecLoop == InitSplay /\ [][NextLoop]_vars /\ LoopFairness

\* ------------------------------------------- inserts and deletes (AVL)
\* an AVL tree that starts empty and is used through insert and delete only
InitAvl ==
    /\ kind = "avl"
    /\ tree = Empty
    /\ wk = NoWalker
    /\ last = [op |-> "new"]
    /\ nins = 0 /\ nact = 0 /\ nqry = 0
    /\ panicked = FALSE
    /\ only_inserts = TRUE
    /\ suite = "rebalance"
    /\ NoSplit /\ NoTelescope

NextAvl == InsertAt \/ DeleteAt

SpecAvl == InitAvl /\ [][NextAvl]_vars

\* ------------------------------------------------------------ properties

\* C1: in an AVL tree built from the empty tree by successful walker inserts
\* at arbitrary gaps, once the walker is dropped every node's rank is
\* 1 + max(rank(left), rank(right)) and the ranks of its sons differ by at
\* most 1.
C1_RanksAfterInserts ==
    (kind = "avl" /\ only_inserts /\ ~wk.open /\ ~panicked)
        => AvlAssertCorrectness(tree)

\* C2: after the delete of an occupied position of a rank-correct AVL tree
\* and the drop of the walker, every node satisfies the rank invariant again.
C2_RanksAfterDelete ==
    (kind = "avl" /\ last.op = "delete_at" /\ last.preok /\ ~panicked)
        => AvlAssertCorrectness(tree)

\* the sequence xs with v put in front of index i (counted from 0)
InsertedAt(xs, i, v) == SubSeq(xs, 1, i) \o <<v>> \o SubSeq(xs, i + 1, Len(xs))

\* the sequence xs without its element of index i (counted from 0)
RemovedAt(xs, i) == SubSeq(xs, 1, i) \o SubSeq(xs, i + 2, Len(xs))

\* C3: in both trees, a successful insert of v by a walker on the gap before
\* index i of the in-order sequence xs leaves the in-order sequence
\* xs[..i] ++ [v] ++ xs[i..].
C3_InsertInOrder ==
    (last.op \in {"insert", "insert_at"} /\ ~panicked
        /\ (last.op = "insert" => last.res # None))
        => Iter(tree) = InsertedAt(last.pre, last.idx, last.val)

C3_Witness ==
    /\ last.op = "insert" /\ last.res # None /\ ~panicked
    /\ Len(last.pre) >= 2 /\ last.idx > 0 /\ last.idx < Len(last.pre)

\* C4: in both trees, delete by a walker on the i-th in-order element of xs
\* returns Some(xs[i]) and leaves the in-order sequence xs[..i] ++ xs[i+1..].
C4_DeleteInOrder ==
    (last.op \in {"delete", "delete_at"} /\ ~panicked
        /\ (last.op = "delete" => last.occ))
        => /\ last.res = Some(last.pre[last.idx + 1])
           /\ Iter(tree) = RemovedAt(last.pre, last.idx)

C4_Witness ==
    /\ last.op = "delete" /\ last.occ /\ ~panicked
    /\ Len(last.pre) >= 3 /\ last.idx > 0 /\ last.idx < Len(last.pre) - 1

\* C5: iterating the tree built by from_iter from the sequence xs yields xs,
\* and the AVL tree built so satisfies the rank invariant.
C5_FromIterRoundTrip ==
    (last.op = "from_iter" /\ ~panicked)
        => /\ Iter(tree) = last.xs
           /\ kind = "avl" => AvlAssertCorrectness(tree)

C5_Witness ==
    /\ last.op = "from_iter" /\ ~panicked /\ kind = "avl"
    /\ Len(last.xs) >= 3 /\ last.xs[1] # last.xs[2]

\* C6: after splay() and after the drop of a splay walker the walker is at
\* depth 0 and the node it was on -- or the father of the empty position it
\* was on -- is the root of the tree.
C6_SplayedToRoot ==
    (kind = "splay" /\ last.op \in {"splay", "drop"} /\ ~panicked)
        => /\ last.op = "splay" => (wk.open /\ Depth(W) = 0)
           /\ last.on # None =>
                /\ ~IsEmpty(tree)
                /\ tree.node_value = last.on[1]
                /\ Size(tree.left) = last.onidx
           /\ Iter(tree) = last.pre

C6_Witness ==
    /\ kind = "splay" /\ last.op = "splay" /\ ~panicked
    /\ last.depth >= 2 /\ last.on # None

\* the accepted region of a locator on a sequence of n elements: the
\* indices RegionLo .. RegionHi - 1 (counted from 0)
RegionLo(loc, n) == IF loc.k = "all" THEN 0 ELSE MinOf(loc.low, n)
RegionHi(loc, n) == IF loc.k = "all" THEN n ELSE MinOf(loc.high, n)
Region(xs, loc) == SubSeq(xs, RegionLo(loc, Len(xs)) + 1, RegionHi(loc, Len(xs)))
InRegion(i, loc, n) == RegionLo(loc, n) < i /\ i <= RegionHi(loc, n)

\* the summaries of the values of xs, combined from left to right
RECURSIVE FoldSummary(_)
FoldSummary(xs) ==
    IF xs = <<>> THEN SummaryDefault
    ELSE SummaryAdd(FoldSummary(Front(xs)), ToSummary(Last(xs)))

\* where the isolated subtree hangs: under the successor under the
\* predecessor, under the successor, under the predecessor, or nowhere
IsolatedPath(lo, hi, n) ==
    IF lo > 0 /\ hi < n THEN <<FALSE, TRUE>>
    ELSE IF hi < n THEN <<TRUE>>
    ELSE IF lo > 0 THEN <<FALSE>>
    ELSE <<>>

\* C7: isolate_segment(L) returns a walker whose subtree holds exactly the
\* elements of L's region in order -- the left son of the successor at
\* depth 1, the left son of the root, the right son of the root or the whole
\* tree -- and the in-order sequence of the tree is unchanged.
C7_IsolateSegment ==
    (last.op = "isolate_segment" /\ ~panicked)
        => LET n == Len(last.pre)
               lo == RegionLo(last.loc, n)
               hi == RegionHi(last.loc, n)
           IN  /\ wk.open
               /\ Iter(Cur(W)) = Region(last.pre, last.loc)
               /\ Iter(tree) = last.pre
               /\ wk.p = IsolatedPath(lo, hi, n)
               /\ lo > 0 => Size(tree.left) = lo - 1
               /\ (lo > 0 /\ hi < n) => Size(tree.right.left) = hi - lo
               /\ (lo = 0 /\ hi < n) => Size(tree.left) = hi

C7_Witness ==
    /\ last.op = "isolate_segment" /\ ~panicked
    /\ wk.p = <<FALSE, TRUE>> /\ ~WIsEmpty(W) /\ nact > 0

\* C8: in both trees segment_summary(L) is the combination, from left to
\* right, of the summaries of exactly the values of L's region as they are
\* after the actions applied so far: the whole fold for all, the identity
\* for an empty region.
C8_SegmentSummary ==
    (last.op = "segment_summary" /\ ~panicked)
        => /\ last.res = FoldSummary(Region(last.pre, last.loc))
           /\ Iter(tree) = last.pre

C8_Witness ==
    /\ last.op = "segment_summary" /\ ~panicked /\ nact > 0
    /\ Len(Region(last.pre, last.loc)) = 2 /\ Len(last.pre) = 3
    /\ last.res.max # last.res.min

\* the segment_summary of the tree as it is now
SummaryNow(loc) ==
    IF kind = "avl" THEN AvlSegmentSummary(tree, loc).res
    ELSE SplaySegmentSummary(tree, loc).res

\* C9: after act_segment(a, L) with a non-reversing a, the in-order sequence
\* is the old one with a applied to exactly the elements of L's region, and
\* every segment_summary asked afterwards is the fold over that sequence.
C9_ActSegment ==
    (last.op = "act_segment" /\ ~last.a.to_reverse /\ ~panicked)
        => /\ Iter(tree) = [i \in 1..Len(last.pre) |->
                                IF InRegion(i, last.loc, Len(last.pre))
                                THEN ActValue(last.a, last.pre[i])
                                ELSE last.pre[i]]
           /\ \A loc \in Locators :
                SummaryNow(loc) = FoldSummary(Region(Iter(tree), loc))

C9_Witness ==
    /\ last.op = "act_segment" /\ ~last.a.to_reverse /\ ~panicked
    /\ Len(last.pre) = 3 /\ Len(Region(last.pre, last.loc)) = 1
    /\ Iter(tree) # last.pre

\* C10: on a splay tree, act_segment with the pure reverse on L reverses the
\* order of exactly the elements of L's region, and the same call once more
\* gives back the original in-order sequence.
C10_ReverseSegment ==
    (kind = "splay" /\ last.op = "act_segment" /\ ~panicked
        /\ last.a = [to_reverse |-> TRUE, mul |-> 1, add |-> 0])
        => LET n == Len(last.pre)
               lo == RegionLo(last.loc, n)
               hi == RegionHi(last.loc, n)
           IN  /\ Iter(tree) = [i \in 1..n |->
                                    IF InRegion(i, last.loc, n)
                                    THEN last.pre[lo + hi + 1 - i]
                                    ELSE last.pre[i]]
               /\ Iter(SplayActSegment(tree, last.a, last.loc).t) = last.pre

C10_Witness ==
    /\ kind = "splay" /\ last.op = "act_segment" /\ ~panicked
    /\ last.a.to_reverse /\ Len(last.pre) = 3
    /\ Len(Region(last.pre, last.loc)) = 2 /\ Iter(tree) # last.pre

\* C11: concatenate_right of A with B leaves in-order(A) ++ in-order(B);
\* when A is empty the result is exactly B, and otherwise the rightmost
\* node of A is the root and B is its right subtree.
C11_Concatenate ==
    (last.op = "concatenate" /\ ~panicked)
        => /\ Iter(tree) = Iter(last.a) \o Iter(last.b)
           /\ IsEmpty(last.a) => tree = last.b
           /\ ~IsEmpty(last.a) =>
                /\ ~IsEmpty(tree)
                /\ tree.node_value = Last(Iter(last.a))
                /\ tree.right = last.b
                /\ Size(tree.left) = Size(last.a) - 1

C11_Witness ==
    /\ last.op = "concatenate" /\ ~panicked
    /\ Size(last.a) >= 2 /\ Size(last.b) >= 2 /\ ~IsEmpty(last.a.right)

\* C12: split_right at the empty position before index i leaves xs[..i] in
\* the tree and returns a tree holding xs[i..], whichever side of its father
\* the position is on; on an empty tree it returns an empty tree; on
\* success the walker is at depth 0.
C12_SplitRight ==
    (last.op = "split_right" /\ ~last.occ /\ ~panicked)
        => /\ last.res # None /\ other = last.res
           /\ Iter(tree) = SubSeq(last.pre, 1, last.idx)
           /\ Iter(other[1]) = SubSeq(last.pre, last.idx + 1, Len(last.pre))
           /\ last.pre = <<>> => IsEmpty(other[1])
           /\ last.depth = 0

C12_Witness ==
    /\ last.op = "split_right" /\ ~last.occ /\ ~panicked
    /\ last.wasleft = Some(TRUE) /\ last.idx >= 2 /\ Len(last.pre) - last.idx >= 2

\* C13: after split_right at any gap, the concatenation of the tree that
\* remains with the tree returned has the in-order sequence of the tree
\* before the split.
C13_SplitThenConcatenate ==
    (last.op = "split_right" /\ ~last.occ /\ ~panicked)
        => Iter(ConcatenateRight(tree, other[1]).t) = last.pre

C13_Witness ==
    /\ last.op = "split_right" /\ ~last.occ /\ ~panicked
    /\ last.wasleft = Some(FALSE) /\ last.idx >= 2 /\ Len(last.pre) - last.idx >= 2
    /\ nact > 0

\* C14: after every public operation has finished and its walker is dropped,
\* assert_correctness of the tree does not panic: every node's cached
\* subtree_summary is its pending action applied to summary(left) +
\* singleton(value) + summary(right) (and, for the AVL tree, which checks them
\* in the same call, the ranks are consistent).
C14_AssertCorrectness ==
    (~wk.open /\ ~panicked) => AssertCorrectness(kind, tree)

\* the half of C14 about the summaries alone, for the tree and for a tree that
\* was split off
SummariesCoherent ==
    (~wk.open /\ ~panicked)
        => /\ BasicAssertCorrectness(tree)
           /\ other # None => BasicAssertCorrectness(other[1])

\* C15: a Telescope is never empty (size() >= 1 in every reachable state),
\* and pop() on a telescope of size 1 returns None and leaves the size and
\* the current top reference unchanged.
C15_TelescopeNeverEmpty ==
    /\ TelescopeSize(tel) >= 1
    /\ (last.op = "pop" /\ last.size = 1)
          => /\ last.res = None
             /\ TelescopeSize(tel) = 1
             /\ tel.head = last.top

\* a telescope that grew and shrank back to its original reference is asked
\* to pop it
C15_Witness ==
    /\ last.op = "pop" /\ last.size = 1
    /\ cnt.push >= 2 /\ cnt.pop = cnt.push

\* C16: the Telescope behaves as a stack of references: size = 1 +
\* (successful extends and pushes) - (successful pops); a successful pop hands
\* out the top and makes the top again the reference that was on top just
\* before the matching extend/push; a successful extend or push puts the new
\* reference on top; map replaces the top without changing the size; and
\* extend_result / map_result whose function returns Err leave size and top
\* unchanged.
C16_TelescopeIsStack ==
    /\ TelescopeSize(tel) = 1 + cnt.push - cnt.pop
    /\ tel.vec = stack
    /\ (last.op = "pop" /\ last.res # None)
          => /\ last.res = Some(last.top)
             /\ Some(tel.head) = last.below
             /\ TelescopeSize(tel) = last.size - 1
    /\ (last.op \in {"extend", "push"} /\ last.ok)
          => /\ Some(tel.head) = last.fr
             /\ TelescopeSize(tel) = last.size + 1
    /\ (last.op = "map" /\ last.ok)
          => /\ Some(tel.head) = last.fr
             /\ TelescopeSize(tel) = last.size
    /\ (last.op \in {"extend", "map"} /\ ~last.ok)
          => /\ tel.head = last.top
             /\ TelescopeSize(tel) = last.size

\* a pop that uncovers a top that was put there by a map, under two more
\* references
C16_Witness ==
    /\ last.op = "pop" /\ last.res # None
    /\ last.size = 3
    /\ tel.head # last.top
    /\ tel.head # tel.vec[1]

\* C17: for both walkers, insert at an occupied position returns None and
\* delete at an empty position returns None, and in both refused cases the
\* tree (its structure, hence its in-order sequence) and the walker's
\* position are unchanged.
C17_RefusedInsertDelete ==
    [][ ( \/ (last'.op = "insert" /\ ~WIsEmpty(W))
          \/ (last'.op = "delete" /\ WIsEmpty(W)) )
        => /\ last'.res = None
           /\ ~panicked'
           /\ tree' = tree
           /\ Iter(tree') = Iter(tree)
           /\ wk' = wk ]_vars

\* an insert was refused on a node below the root of an AVL tree
C17_Witness ==
    /\ last.op = "insert" /\ last.res = None
    /\ kind = "avl" /\ wk.open /\ Len(wk.p) >= 1 /\ Size(tree) >= 3

\* C18: go_left and go_right return Err(()) exactly when the current position
\* is empty, go_up returns Err(()) exactly when the walker is at the root
\* (depth 0); a refused move leaves the tree, the walker's position and its
\* depth unchanged; a successful go_left / go_right arrives at the left /
\* right son; a successful go_up returns true iff the position left was a
\* left child and arrives at its father, one less deep.
C18_MovementRefusals ==
    [][ /\ last'.op \in {"go_left", "go_right"}
            => /\ last'.res = ~WIsEmpty(W)
               /\ ~last'.res => (tree' = tree /\ wk' = wk)
               /\ last'.res => wk'.p = Append(wk.p, last'.op = "go_left")
        /\ last'.op = "go_up"
            => /\ (last'.res = None) <=> (Len(wk.p) = 0)
               /\ last'.res = None => (tree' = tree /\ wk' = wk)
               /\ last'.res # None
                    => /\ last'.res = Some(Last(wk.p))
                       /\ wk'.p = Front(wk.p)
                       /\ Len(wk'.p) = Len(wk.p) - 1 ]_vars

\* a go_up from a right son two levels deep
C18_Witness ==
    /\ last.op = "go_up" /\ last.res = Some(FALSE)
    /\ wk.open /\ Len(wk.p) = 1

\* C19: AVLTree::act_segment called with an action whose reverse bit is set
\* fails cleanly: the call comes back (the program is not aborted by a
\* panic) and leaves the tree's in-order sequence unchanged.
C19_AvlReverseFailsCleanly ==
    (kind = "avl" /\ last.op = "act_segment" /\ last.a.to_reverse)
        => /\ ~panicked
           /\ Iter(tree) = last.pre

\* the number of values left of the subtree at path p of t
RECURSIVE SpanStart(_, _)
SpanStart(t, p) ==
    IF p = <<>> THEN 0
    ELSE IF Head(p) THEN SpanStart(t.left, Tail(p))
    ELSE Size(t.left) + 1 + SpanStart(t.right, Tail(p))

\* the values right of the walker's position that are not in its subtree,
\* and those left of it
RightContext ==
    SubSeq(Iter(tree), SpanStart(tree, wk.p) + Size(Cur(W)) + 1, Len(Iter(tree)))

LeftContext == SubSeq(Iter(tree), 1, SpanStart(tree, wk.p))

\* C20: for an AVL walker at any position, far_right_summary() is the
\* summary of all values to the right of the current position that are not
\* in the current subtree (the right context).
C20_AvlFarRightSummary ==
    (kind = "avl" /\ wk.open /\ ~panicked)
        => FarRightSummary(W, kind) = FoldSummary(RightContext)

\* what does hold of the walkers: far_left_summary of both, and
\* far_right_summary of the splay walker
FarSummariesElsewhere ==
    (wk.open /\ ~panicked)
        => /\ FarLeftSummary(W) = FoldSummary(LeftContext)
           /\ kind = "splay" => FarRightSummary(W, kind) = FoldSummary(RightContext)

\* C21: for a walker on a non-empty position, right_summary() is the summary
\* of the right subtree of the current node combined with far_right_summary()
\* and left_summary() is far_left_summary() combined with the summary of the
\* left subtree; at an empty position they are the far summaries.
C21_LeftRightSummary ==
    (wk.open /\ ~panicked)
        => IF ~WIsEmpty(W)
           THEN /\ RightSummary(W, kind)
                     = SummaryAdd(SubtreeSummary(Cur(W).right), FarRightSummary(W, kind))
                /\ LeftSummary(W)
                     = SummaryAdd(FarLeftSummary(W), SubtreeSummary(Cur(W).left))
           ELSE /\ RightSummary(W, kind) = FarRightSummary(W, kind)
                /\ LeftSummary(W) = FarLeftSummary(W)

\* the values strictly left of the walker's node, which left_summary does
\* give, and the far summaries at an empty position
LeftSummaryHolds ==
    (wk.open /\ ~panicked)
        => /\ ~WIsEmpty(W) => LeftSummary(W)
                 = FoldSummary(SubSeq(Iter(tree), 1, IndexOf(tree, wk.p)))
           /\ WIsEmpty(W) => /\ RightSummary(W, kind) = FarRightSummary(W, kind)
                              /\ LeftSummary(W) = FarLeftSummary(W)

\* a left summary of s unit-size values
LeftOfSize(s) == [SummaryDefault EXCEPT !.size = s]

\* is the key among the values xs
HasKey(xs, key) == \E i \in 1..Len(xs) : xs[i] = key

\* C22: with smaller keys on the left, locate_by_key(k) answers Accept when
\* the node's key equals k, GoLeft when the node's key is greater than k and
\* GoRight when it is less, so that a search in a key-ordered tree reaches
\* the node with key k whenever it is present.
C22_LocateByKey ==
    (last.op = "search" /\ last.loc.k = "key" /\ ~panicked)
        => /\ \A node \in 0..(MaxLocLen + 1) :
                Locate(last.loc, SummaryDefault, node, SummaryDefault)
                    = IF node = last.loc.key THEN "Accept"
                      ELSE IF node > last.loc.key THEN "GoLeft"
                      ELSE "GoRight"
           /\ HasKey(last.pre, last.loc.key)
                => (~WIsEmpty(W) /\ Cur(W).node_value = last.loc.key)

\* C23: for unit-size nodes, IndexLocator{low, high} at a node with in-order
\* index s answers Accept iff low <= s < high, GoLeft iff s >= high, and
\* GoRight iff s < low and s < high; so a search with an empty range
\* (low >= high) accepts nothing and ends on the gap just before index high
\* (the end of the tree if there is no such index), and a search with a
\* non-empty range that starts inside the tree ends on a node of the range.
C23_IndexLocator ==
    /\ \A lo \in 0..(MaxLocLen + 1), hi \in 0..(MaxLocLen + 1), s \in 0..MaxLocLen :
         LET r == Locate(LocateByIndexRange(lo, hi), LeftOfSize(s), 1, SummaryDefault)
         IN  /\ (r = "Accept") <=> (lo <= s /\ s < hi)
             /\ (r = "GoLeft") <=> (s >= hi)
             /\ (r = "GoRight") <=> (s < lo /\ s < hi)
    /\ (last.op = "search" /\ last.loc.k = "index" /\ ~panicked)
         => /\ wk.open
            /\ Iter(tree) = last.pre
            /\ last.loc.low >= last.loc.high
                 => /\ WIsEmpty(W)
                    /\ IndexOf(tree, wk.p) = MinOf(last.loc.high, Len(last.pre))
            /\ (last.loc.low < last.loc.high /\ last.loc.low < Len(last.pre))
                 => /\ ~WIsEmpty(W)
                    /\ last.loc.low <= IndexOf(tree, wk.p)
                    /\ IndexOf(tree, wk.p) < last.loc.high

\* a search with the empty range 2..2 went two levels down to the gap
C23_Witness ==
    /\ last.op = "search" /\ last.loc.k = "index"
    /\ last.loc.low = 2 /\ last.loc.high = 2
    /\ Len(last.pre) = 4 /\ wk.open /\ Len(wk.p) >= 2

\* C24: UnionLocator(L1, L2) answers Accept whenever L1 and L2 give
\* different answers or both Accept, and otherwise their common answer; for
\* two non-empty index ranges [a,b) and [c,d) it accepts exactly the nodes
\* of [min(a,c), max(b,d)), and segment_summary with it is the summary of
\* that part of the sequence.
C24_UnionLocator ==
    /\ \A a \in {"Accept", "GoLeft", "GoRight"}, b \in {"Accept", "GoLeft", "GoRight"} :
         UnionOf(a, b) = IF a # b \/ a = "Accept" THEN "Accept" ELSE a
    /\ \A l1 \in NonEmptyRanges, l2 \in NonEmptyRanges, s \in 0..MaxLocLen :
         (Locate(UnionLocator(l1, l2), LeftOfSize(s), 1, SummaryDefault) = "Accept")
            <=> (MinOf(l1.low, l2.low) <= s /\ s < MaxOf(l1.high, l2.high))
    /\ (last.op = "segment_summary" /\ last.loc.k = "union" /\ ~panicked)
         => /\ last.res = FoldSummary(SubSeq(last.pre,
                                MinOf(last.loc.a.low, last.loc.b.low) + 1,
                                MinOf(MaxOf(last.loc.a.high, last.loc.b.high),
                                      Len(last.pre))))
            /\ Iter(tree) = last.pre

\* the union of [3,4) and [0,1), given in this order, covers the 4 values
C24_Witness ==
    /\ last.op = "segment_summary" /\ last.loc.k = "union"
    /\ last.loc.a = LocateByIndexRange(3, 4) /\ last.loc.b = LocateByIndexRange(0, 1)
    /\ Len(last.pre) = 4 /\ last.res.size = 4

C26_SplayToDepthFrame ==
    (last.op = "splay_to_depth" /\ ~last.running /\ ~panicked)
        => /\ wk.open
           /\ Depth(W) = last.d
           /\ wk.p = SubSeq(last.prep, 1, last.d)
           /\ Put(tree, wk.p, Empty) = Put(last.pret, wk.p, Empty)
           /\ Iter(Cur(W)) = Iter(Sub(last.pret, wk.p))

\* a splay to depth 1 from depth 3, in a tree with a pending action
C26_Witness ==
    /\ last.op = "splay_to_depth" /\ ~last.running /\ ~panicked
    /\ last.d = 1 /\ Len(last.prep) = 3 /\ nact > 0
    /\ Cur(W) # Sub(last.pret, wk.p)

\* C29: every splay step (zig, zig-zig, zig-zag, the go-up from an empty
\* position), hence splay_step, every round of splay_to_depth and the drop
\* of a SplayWalker, leaves the in-order sequence of the values and the
\* summary of the whole tree unchanged, and panics in none of them.
C29_SplayKeepsSequence ==
    [][ (Looping \/ last'.op \in {"splay_step", "drop"})
        => /\ ~panicked'
           /\ Iter(tree') = Iter(tree)
           /\ SubtreeSummary(tree') = SubtreeSummary(tree)
           /\ SubtreeSummary(tree') = FoldSummary(Iter(tree')) ]_vars

\* a splay_step from depth 2 or more (zig-zig or zig-zag) that changed the
\* shape of a tree with a pending action
C29_Witness ==
    /\ last.op = "splay_step" /\ last.occ /\ last.depth >= 2
    /\ nact > 0 /\ wk.open /\ Depth(W) = last.depth - 2

\* C30: splay_to_depth(d) terminates: each splay_step_depth(d) made with
\* walker depth > d takes the depth down by 1 or 2 and never below d, without
\* a panic, so the loop, once entered, is left; called with depth < d the
\* assertion fails instead and the loop is not entered.
C30_SplayToDepthTerminates ==
    /\ [](RoundIsDue =>
            LET r == SplayStepDepth(W, last.d)
            IN  /\ ~r.panicked
                /\ Depth(r) \in {Depth(W) - 1, Depth(W) - 2}
                /\ Depth(r) >= last.d)
    /\ [][ (last'.op = "splay_to_depth" /\ ~Looping)
               => (panicked' <=> Depth(W) < last'.d) /\ (panicked' => ~last'.running)
         ]_vars
    /\ Looping ~> ~Looping

\* a loop that made two rounds has been left
C30_Witness ==
    /\ last.op = "splay_to_depth" /\ ~last.running /\ ~panicked
    /\ Len(last.prep) >= last.d + 3
    /\ Depth(W) = last.d

\* the walkers at which the rounds of the loop of rebalance begin, for a
\* rebalance called with the walker w on a non-empty position
RECURSIVE RebalanceStarts(_)
RebalanceStarts(w) ==
    {w} \cup
    LET w1 == RebalanceLocal(w)
        u  == BasicGoUp(w1)
    IN  IF w1.panicked \/ ~RebuildRanksChanged(Cur(u)) \/ GoUpResult(w1) = None
        THEN {}
        ELSE RebalanceStarts(SetCur(u, RebuildRanks(Cur(u))))

\* the stored rank of the node t is 1 + max of the ranks of its sons
RankRebuilt(t) == ~t.emp /\ Rank(t) = NewRank(t)

\* the left-right case: rank difference -2, left son with rank difference > 0
LeftRightCase(w) ==
    ~WIsEmpty(w) /\ RankDiff(Cur(w)) = -2 /\ RankDiff(Cur(w).left) > 0

\* the right-left case: rank difference 2, right son with rank difference < 0
RightLeftCase(w) ==
    ~WIsEmpty(w) /\ RankDiff(Cur(w)) = 2 /\ RankDiff(Cur(w).right) < 0

\* after the double rotation the walker is on the promoted grandchild, whose
\* sons are the old left (right) son and the old node
DoubleRotationRanks(r) ==
    /\ ~r.panicked
    /\ RankRebuilt(Cur(r)) /\ RankRebuilt(Cur(r).left) /\ RankRebuilt(Cur(r).right)

\* C27: when a round of rebalance, in an insert into an AVL tree, meets a
\* node with rank difference -2 whose left son has rank difference > 0, the
\* double rotation leaves the old node, the old left son and the promoted
\* grandchild each with stored rank 1 + max(ranks of its sons), as the
\* right-left case of rank difference 2 does.
C27_LeftRightRanks ==
    [][ (kind = "avl" /\ last'.op = "insert" /\ last'.res # None)
        => \A w \in RebalanceStarts(AvlGoUp(SetCur(W, NewNode(last'.val, 1)))) :
            /\ LeftRightCase(w) => DoubleRotationRanks(RebalanceLocal(w))
            /\ RightLeftCase(w) => DoubleRotationRanks(RebalanceLocal(w)) ]_vars

\* the right-left half alone, which holds
C27_RightLeftRanks ==
    [][ (kind = "avl" /\ last'.op = "insert" /\ last'.res # None)
        => \A w \in RebalanceStarts(AvlGoUp(SetCur(W, NewNode(last'.val, 1)))) :
            RightLeftCase(w) => DoubleRotationRanks(RebalanceLocal(w)) ]_vars

\* C28: under any sequence of inserts and deletes on an AVL tree, rebalance
\* reaches none of its fatal paths (the illegal rank difference, the failed
\* assertion on the result of rot_up, a failed unwrap): no insert and no
\* delete ends in a panic.
C28_RebalanceNeverFatal ==
    (kind = "avl" /\ last.op \in {"insert_at", "delete_at"}) => ~panicked

====
